---- MODULE Spec2Model ----
(***************************************************************************)
(* whipper command dispatcher (whipper/command/basecommand.py) and the     *)
(* synchronous task runner exercised by morituri/test/test_common_encode.  *)
(*                                                                         *)
(* A run constructs the chain Whipper -> CD -> Rip of BaseCommand nodes    *)
(* over one argv, every node parsing into the shared options namespace,    *)
(* and then calls do() on the chain, which runs one task through the       *)
(* task runner.                                                            *)
(*                                                                         *)
(* Python values are records [ty, s]: the type name and the repr of the    *)
(* value.  An optional keyword argument is a sequence of length 0 (key     *)
(* absent) or 1 (key present).                                             *)
(*                                                                         *)
(* Line 172 of basecommand.py reads `else if kwargs["type"] = bool:`,      *)
(* which CPython rejects when it compiles the module.  The model gives     *)
(* the statement the only meaning its text has, an assignment in the       *)
(* position of a condition: kwargs["type"] becomes bool and the branch is  *)
(* taken.  Everything else is modelled as Python runs it.                  *)
(***************************************************************************)
EXTENDS Integers, Sequences, FiniteSets, TLC

VARIABLES
    nodes,      \* the chain of BaseCommand objects, root first
    pc,         \* position of the innermost constructor / of do()
    status,     \* how the process ended: [exc, arg]; exc = "" while running
    heap,       \* argparse.Namespace objects by identity (index)
    config,     \* BaseCommand.config: the config file's entries
    queries,    \* calls made to config.getter_or_default, in order
    drives,     \* what drive.getAllDevicePaths() returns
    fs,         \* the filesystem os.path.realpath / os.path.exists see
    program,    \* what the subclasses declare: device_option, option type
    output,     \* what was printed or logged, in order
    run         \* the task runner: runner, task, verbose, captured error

vars == <<nodes, pc, status, heap, config, queries, drives, fs, program,
          output, run>>

----------------------------------------------------------------------------
(* Bounds *)

MaxArgv == 3        \* longest argv of the root node

----------------------------------------------------------------------------
(* Python values *)

PyNone == [ty |-> "NoneType", s |-> "None"]
PyInt(s) == [ty |-> "int", s |-> s]
PyFloat(s) == [ty |-> "float", s |-> s]
PyBool(s) == [ty |-> "bool", s |-> s]
PyStr(s) == [ty |-> "str", s |-> s]
ValueError == [ty |-> "ValueError", s |-> ""]

Opt(S) == {<<>>} \cup {<<x>> : x \in S}

IntLiterals == {"7", "8"}

\* type(arg_string), as argparse's _get_value applies the option's type
\* callable to a string; no type means the string is kept.
get_value(type, string) ==
    IF type = <<>> THEN PyStr(string)
    ELSE CASE type[1] = "int" ->
                 IF string \in IntLiterals THEN PyInt(string) ELSE ValueError
           [] type[1] = "float" ->
                 IF string \in IntLiterals THEN PyFloat(string \o ".0")
                 ELSE ValueError
           [] type[1] = "bool" ->
                 IF string = "" THEN PyBool("False") ELSE PyBool("True")
           [] OTHER -> PyStr(string)

----------------------------------------------------------------------------
(* Command-line tokens: [opt, val]; a word has opt = "" *)

Word(w) == [opt |-> "", val |-> w]
Flag(o, v) == [opt |-> o, val |-> v]

Text(tok) == IF tok.opt = "" THEN tok.val
             ELSE IF tok.val = "" THEN tok.opt
             ELSE tok.opt \o "=" \o tok.val

Tokens == {Word("cd"), Word("rip"), Word("bogus"),
           Flag("--k", "7"), Flag("-d", "/dev/cdrom"), Flag("-h", "")}

RECURSIVE SeqsUpTo(_, _)
SeqsUpTo(S, n) ==
    IF n = 0 THEN {<<>>}
    ELSE LET shorter == SeqsUpTo(S, n - 1)
         IN  shorter \cup {Append(q, x) : q \in {r \in shorter : Len(r) = n - 1},
                                          x \in S}

----------------------------------------------------------------------------
(* The command classes *)

Classes == {"Whipper", "CD", "Rip"}

\* the 'subcommands' dictionary of a class that has one
subcommands == [c \in {"Whipper", "CD"} |->
                  IF c = "Whipper" THEN [n \in {"cd"} |-> "CD"]
                  ELSE [n \in {"rip"} |-> "Rip"]]

hasattr_subcommands(cls) == cls \in DOMAIN subcommands

config_section == [c \in Classes |-> IF c = "CD" THEN <<"cd">> ELSE <<>>]

no_add_help == [c \in Classes |-> c = "Whipper"]

device_option(cls) == program.device_option[cls]

Types == {"int", "float", "bool", "str"}
Sections == {"main", "cd", "enc"}

\* the code default and the config file's value of option k, by the type
\* the option is declared with and (for the file) by section
CodeDefault(type) ==
    IF type = <<>> THEN PyStr("dflt")
    ELSE CASE type[1] = "int" -> PyInt("320")
           [] type[1] = "float" -> PyFloat("320.5")
           [] type[1] = "bool" -> PyBool("False")
           [] OTHER -> PyStr("dflt")

FileNumber == [s \in Sections |->
                 IF s = "main" THEN "192" ELSE IF s = "cd" THEN "193" ELSE "194"]

FileValue(type, section) ==
    IF type = <<>> THEN PyStr("file-" \o section)
    ELSE CASE type[1] = "int" -> PyInt(FileNumber[section])
           [] type[1] = "float" -> PyFloat(FileNumber[section] \o ".5")
           [] type[1] = "bool" -> PyBool("True")
           [] OTHER -> PyStr("file-" \o section)

\* the keyword arguments a subclass can pass to add_argument_and_config
\* for an option of the given type
KwargsSet(type) ==
    {kw \in [dest : Opt({"k"}), type : {type},
             default : Opt({CodeDefault(type)}), section : Opt({"enc"})] :
        kw.dest = <<>> => (kw.default # <<>> /\ kw.section = <<>>)}

\* add_arguments() of a class: the registrations it makes, in order
add_arguments(cls) == program.add_arguments[cls]

----------------------------------------------------------------------------
(* add_argument_and_config: the pieces of one registration *)

\* lines 140-150: the config section the option is read from
Section(cls, kwargs) ==
    IF kwargs.section # <<>> THEN kwargs.section[1]
    ELSE IF config_section[cls] = <<>> THEN "main"
    ELSE config_section[cls][1]

\* faulty variant: the check for 'dest' is left out
missing_dest_unchecked(kwargs) == FALSE

\* lines 159-165: a registration without 'dest' raises SyntaxError
missing_dest(kwargs) == kwargs.dest = <<>>

\* lines 161-163: the key, None until 'dest' is read
Key(kwargs) == IF kwargs.dest # <<>> THEN kwargs.dest[1] ELSE "None"

\* lines 152-157: the caller's default, None when there is none
Default(kwargs) ==
    IF kwargs.default # <<>> THEN kwargs.default[1] ELSE PyNone

\* lines 167-173: the type suffix of the config getter
Typesuffix(kwargs) ==
    IF kwargs.type # <<>>
    THEN IF kwargs.type[1] \in {"int", "float"} THEN kwargs.type[1]
         ELSE "boolean"
    ELSE ""

\* lines 169-173: kwargs["type"] as it is handed on to the parser
TypeArgument(kwargs) ==
    IF kwargs.type # <<>>
    THEN IF kwargs.type[1] \in {"int", "float"} THEN kwargs.type
         ELSE <<"bool">>
    ELSE <<>>

\* config.getter_or_default: the stored value of (section, key), the
\* default unmodified when there is none
getter_or_default(typesuffix, section, key, default) ==
    IF <<section, key>> \in DOMAIN config THEN config[<<section, key>>]
    ELSE default

\* one argparse action: option string, dest, type callable, default
Action(opt, dest, type, default) ==
    [opt |-> opt, dest |-> dest, type |-> type, default |-> default]

----------------------------------------------------------------------------
(* argparse.ArgumentParser.parse_args(argv, namespace) *)

\* a Namespace: attrs maps the option attributes to values; remainder is
\* <<>> (no attribute), << <<>> >> (None) or << <<list>> >>
EmptyNamespace == [attrs |-> <<>>, remainder |-> <<>>]

SetAttr(ns, dest, value) ==
    [ns EXCEPT !.attrs = [d \in DOMAIN ns.attrs \cup {dest} |->
                            IF d = dest THEN value ELSE ns.attrs[d]]]

HasAttr(ns, dest) ==
    IF dest = "remainder" THEN ns.remainder # <<>>
    ELSE dest \in DOMAIN ns.attrs

IsPositional(a) == a.opt = ""
IsHelp(a) == a.dest = "help"

HasRemainder(parser) == \E i \in 1..Len(parser) : IsPositional(parser[i])

\* "add any action defaults that aren't present"
RECURSIVE AddDefaults(_, _, _)
AddDefaults(parser, i, ns) ==
    IF i > Len(parser) THEN ns
    ELSE LET a == parser[i]
             next == IF IsHelp(a) \/ HasAttr(ns, a.dest) THEN ns
                     ELSE IF IsPositional(a)
                          THEN [ns EXCEPT !.remainder = << <<>> >>]
                          ELSE SetAttr(ns, a.dest, a.default)
         IN  AddDefaults(parser, i + 1, next)

Lookup(parser, opt) ==
    {i \in 1..Len(parser) : parser[i].opt = opt}

\* the option strings and the positional are consumed left to right; the
\* REMAINDER positional takes everything from the first word on
RECURSIVE Consume(_, _, _, _, _)
Consume(parser, argv, i, ns, st) ==
    IF i > Len(argv)
    THEN [ns |-> IF HasRemainder(parser)
                 THEN [ns EXCEPT !.remainder = << << <<>> >> >>]
                 ELSE ns,
          seen |-> st.seen, extras |-> st.extras, exit |-> ""]
    ELSE LET tok == argv[i] IN
         IF tok.opt = ""
         THEN IF HasRemainder(parser)
              THEN [ns |-> [ns EXCEPT !.remainder =
                                 << <<SubSeq(argv, i, Len(argv))>> >>],
                    seen |-> st.seen, extras |-> st.extras, exit |-> ""]
              ELSE Consume(parser, argv, i + 1, ns,
                           [st EXCEPT !.extras = TRUE])
         ELSE LET found == Lookup(parser, tok.opt) IN
              IF found = {}
              THEN Consume(parser, argv, i + 1, ns,
                           [st EXCEPT !.extras = TRUE])
              ELSE LET a == parser[CHOOSE j \in found :
                                     \A l \in found : j <= l]
                       v == get_value(a.type, tok.val)
                   IN  IF IsHelp(a)
                       THEN [ns |-> ns, seen |-> st.seen,
                             extras |-> st.extras, exit |-> "help"]
                       ELSE IF v = ValueError
                       THEN [ns |-> ns, seen |-> st.seen,
                             extras |-> st.extras, exit |-> "error"]
                       ELSE Consume(parser, argv, i + 1,
                                    SetAttr(ns, a.dest, v),
                                    [st EXCEPT !.seen = @ \cup {a.dest}])

\* "Convert action default now instead of doing it before parsing": a
\* string default that the namespace got from this parser goes through
\* the option's type
RECURSIVE ConvertDefaults(_, _, _, _)
ConvertDefaults(parser, i, before, r) ==
    IF i > Len(parser) \/ r.exit # "" THEN r
    ELSE LET a == parser[i]
             applies == /\ ~IsHelp(a) /\ ~IsPositional(a)
                        /\ a.dest \notin r.seen
                        /\ ~HasAttr(before, a.dest)
                        /\ a.default.ty = "str"
             v == get_value(a.type, a.default.s)
         IN  IF ~applies THEN ConvertDefaults(parser, i + 1, before, r)
             ELSE IF v = ValueError THEN [r EXCEPT !.exit = "error"]
             ELSE ConvertDefaults(parser, i + 1, before,
                                  [r EXCEPT !.ns = SetAttr(@, a.dest, v)])

\* the namespace after parsing and how parsing ended: "" (returned),
\* "help" (-h: help printed, exit 0) or "error" (usage error, exit 2)
parse_args(parser, argv, namespace) ==
    LET r == ConvertDefaults(parser, 1, namespace,
                 Consume(parser, argv, 1, AddDefaults(parser, 1, namespace),
                         [seen |-> {}, extras |-> FALSE]))
    IN  IF r.exit = "" /\ r.extras THEN [r EXCEPT !.exit = "error"] ELSE r

----------------------------------------------------------------------------
(* os.path *)

Paths == {"/dev/cdrom", "/dev/sr0"}

\* os.path.realpath over absolute device paths: symlinks are followed
RECURSIVE follow(_, _)
follow(path, seen) ==
    IF path \in DOMAIN fs.links /\ path \notin seen
    THEN follow(fs.links[path], seen \cup {path})
    ELSE path

realpath(path) == follow(path, {})

\* os.path.exists follows symlinks too
exists(path) == realpath(path) \in fs.files

----------------------------------------------------------------------------
(* State *)

Running == [exc |-> "", arg |-> ""]
SystemExit(code) == [exc |-> "SystemExit", arg |-> code]
IOError(msg) == [exc |-> "IOError", arg |-> msg]
SyntaxError(msg) == [exc |-> "SyntaxError", arg |-> msg]

At(step, i) == [step |-> step, node |-> i]

HelpAction == Action("-h", "help", <<>>, PyNone)

\* lines 57-61 and init_parser: a node as add_arguments() finds it.
\* entry records the namespace the constructor was handed, as it was then.
NewNode(cls, argv, prog_name, opts, hp) ==
    [cls |-> cls, argv |-> argv, prog_name |-> prog_name, opts |-> opts,
     parser |-> IF no_add_help[cls] THEN <<>> ELSE <<HelpAction>>,
     options |-> 0, handled |-> FALSE, cmd |-> 0, regs |-> 0,
     entry |-> IF opts = 0 THEN <<>> ELSE <<hp[opts]>>]

Cur == nodes[pc.node]

ArgvSet == SeqsUpTo(Tokens, MaxArgv)

ConfigFor(S, type) ==
    [e \in {<<sec, "k">> : sec \in S} |-> FileValue(type, e[1])]

DrivesSet == {<<>>, <<"/dev/cdrom">>, <<"/dev/sr0", "/dev/cdrom">>}

FsSet ==
    {f \in [links : {<<>>, [p \in {"/dev/cdrom"} |-> "/dev/sr0"]},
            files : SUBSET Paths] : DOMAIN f.links \cap f.files = {}}

DeviceOptionSet ==
    {[c \in Classes |-> c \in D] : D \in {{}, {"CD"}, {"CD", "Rip"}}}

\* the errors a task's operation can raise: objects with a kind
Errors == [kind : {"gst.QueryError", "IOError"}, id : {1, 2}]

Tasks == {"EncodeTask"}

NoRun == [runner_verbose |-> FALSE, verbose |-> FALSE, task |-> "",
          state |-> "idle", exception |-> <<>>, raised |-> <<>>]

\* every class registers option k with its code default
PlainOptions(type) ==
    [c \in Classes |-> <<[dest |-> <<"k">>, type |-> type,
                          default |-> <<CodeDefault(type)>>,
                          section |-> <<>>]>>]

\* every class registers at most one option, of the given type; the leaf
\* registers the plain one or none
AddArgumentsSet(type) ==
    {r \in [Classes -> Opt(KwargsSet(type))] :
        r["Rip"] \in {<<>>, PlainOptions(type)["Rip"]}}

InitWith(argvs, sections, types, regs, drvs, fss, devopts, optss) ==
    /\ \E argv \in argvs, opts \in optss :
         /\ heap = IF opts = 0 THEN <<>> ELSE <<EmptyNamespace>>
         /\ nodes = <<NewNode("Whipper", argv, "whipper", opts,
                              <<EmptyNamespace>>)>>
    /\ \E t \in types, d \in devopts :
         /\ \E r \in regs[t] :
              program = [type |-> t, device_option |-> d,
                         add_arguments |-> r]
         /\ \E S \in sections : config = ConfigFor(S, t)
    /\ drives \in drvs
    /\ fs \in fss
    /\ pc = At("add_arguments", 1)
    /\ status = Running
    /\ queries = <<>>
    /\ output = <<>>
    /\ run = NoRun

\* the dispatcher over every device situation; option k is an int option
Init ==
    InitWith(ArgvSet, {{"cd"}}, {<<"int">>},
             [t \in Opt(Types) |-> {PlainOptions(t)}],
             DrivesSet, FsSet, DeviceOptionSet, {0, 1})

OptionTokens == {Word("cd"), Word("rip"), Flag("--k", "7")}

\* the options over every declared type and every config file; one drive
InitOptions ==
    InitWith(SeqsUpTo(OptionTokens, MaxArgv), SUBSET Sections, Opt(Types),
             [t \in Opt(Types) |-> AddArgumentsSet(t)], {<<"/dev/cdrom">>},
             {[links |-> [p \in {"/dev/cdrom"} |-> "/dev/sr0"],
               files |-> {"/dev/sr0"}]},
             {[c \in Classes |-> c = "Rip"]}, {0})

Exit(st) ==
    /\ status' = st
    /\ pc' = At("exited", pc.node)

----------------------------------------------------------------------------
(* BaseCommand.__init__, step by step *)

\* line 62 and lines 139-184: the subclass's add_arguments() registers an
\* option through add_argument_and_config
AddArgumentAndConfig ==
    /\ pc.step = "add_arguments"
    /\ Cur.regs < Len(add_arguments(Cur.cls))
    /\ LET kwargs == add_arguments(Cur.cls)[Cur.regs + 1] IN
         IF missing_dest(kwargs)
         THEN /\ Exit(SyntaxError("parser requires a 'dest' argument"))
              /\ UNCHANGED <<nodes, queries>>
         ELSE LET key == Key(kwargs)
                  section == Section(Cur.cls, kwargs)
                  default == Default(kwargs)
                  typesuffix == Typesuffix(kwargs)
                  a == Action("--" \o key, key, TypeArgument(kwargs),
                              getter_or_default(typesuffix, section, key,
                                                default))
              IN  /\ queries' = Append(queries,
                        [typesuffix |-> typesuffix, section |-> section,
                         key |-> key, default |-> default,
                         type |-> kwargs.type, node |-> pc.node])
                  /\ nodes' = [nodes EXCEPT
                                 ![pc.node].parser = Append(@, a),
                                 ![pc.node].regs = @ + 1]
                  /\ UNCHANGED <<pc, status>>
    /\ UNCHANGED <<heap, config, drives, fs, program, output, run>>

\* line 62: add_arguments() returns
AddArgumentsReturn ==
    /\ pc.step = "add_arguments"
    /\ Cur.regs = Len(add_arguments(Cur.cls))
    /\ pc' = At("remainder", pc.node)
    /\ UNCHANGED <<nodes, status, heap, config, queries, drives, fs,
                   program, output, run>>

\* lines 64-67: the catch-all positional of a node with subcommands
AddRemainder ==
    /\ pc.step = "remainder"
    /\ nodes' = IF hasattr_subcommands(Cur.cls)
                THEN [nodes EXCEPT ![pc.node].parser =
                        Append(@, Action("", "remainder", <<>>, PyNone))]
                ELSE nodes
    /\ pc' = At("device_option", pc.node)
    /\ UNCHANGED <<status, heap, config, queries, drives, fs, program,
                   output, run>>

\* lines 72-76: no drive was found
no_drives(drvs) == drvs = <<>>

\* faulty variant: the option is registered without looking at the drives
AddDeviceOption_unchecked ==
    /\ pc.step = "device_option"
    /\ nodes' = IF device_option(Cur.cls)
                THEN [nodes EXCEPT ![pc.node].parser =
                        Append(@, Action("-d", "device", <<>>,
                                  IF drives = <<>> THEN PyNone
                                  ELSE PyStr(drives[1])))]
                ELSE nodes
    /\ pc' = At("parse_args", pc.node)
    /\ UNCHANGED <<status, output, heap, config, queries, drives, fs,
                   program, run>>

\* lines 69-81: the -d / --device option, or the abort without a drive
AddDeviceOption ==
    /\ pc.step = "device_option"
    /\ IF ~device_option(Cur.cls)
       THEN /\ pc' = At("parse_args", pc.node)
            /\ UNCHANGED <<nodes, status, output>>
       ELSE IF no_drives(drives)
       THEN /\ output' = Append(output,
                               [level |-> "critical",
                                text |-> "No CD-DA drives found!"])
            /\ Exit(IOError("No CD-DA drives found!"))
            /\ UNCHANGED nodes
       ELSE /\ nodes' = [nodes EXCEPT ![pc.node].parser =
                          Append(@, Action("-d", "device", <<>>,
                                           PyStr(drives[1])))]
            /\ pc' = At("parse_args", pc.node)
            /\ UNCHANGED <<status, output>>
    /\ UNCHANGED <<heap, config, queries, drives, fs, program, run>>

\* line 83: self.options = self.parser.parse_args(argv, namespace=opts)
ParseArgs ==
    /\ pc.step = "parse_args"
    /\ LET fresh == Cur.opts = 0
           id == IF fresh THEN Len(heap) + 1 ELSE Cur.opts
           r == parse_args(Cur.parser, Cur.argv,
                           IF fresh THEN EmptyNamespace ELSE heap[id])
       IN  /\ heap' = IF fresh THEN Append(heap, r.ns)
                      ELSE [heap EXCEPT ![id] = r.ns]
           /\ CASE r.exit = "help" ->
                     /\ output' = Append(output,
                            [level |-> "help", text |-> Cur.prog_name])
                     /\ Exit(SystemExit("0"))
                     /\ UNCHANGED nodes
                [] r.exit = "error" ->
                     /\ output' = Append(output,
                            [level |-> "usage", text |-> Cur.prog_name])
                     /\ Exit(SystemExit("2"))
                     /\ UNCHANGED nodes
                [] OTHER ->
                     /\ nodes' = [nodes EXCEPT ![pc.node].options = id]
                     /\ pc' = At("resolve_device", pc.node)
                     /\ UNCHANGED <<status, output>>
    /\ UNCHANGED <<config, queries, drives, fs, program, run>>

\* faulty variant: the path is used as given
resolved_device_as_given(ns) == ns.attrs["device"].s

\* line 87: os.path.realpath(self.options.device)
resolved_device(ns) == realpath(ns.attrs["device"].s)

\* lines 85-91: the device path is resolved and must exist
ResolveDevice ==
    /\ pc.step = "resolve_device"
    /\ IF ~device_option(Cur.cls)
       THEN /\ pc' = At("handle_arguments", pc.node)
            /\ UNCHANGED <<heap, status, output>>
       ELSE LET device == resolved_device(heap[Cur.options])
                msg == "CD-DA device " \o device \o " not found!"
            IN  /\ heap' = [heap EXCEPT ![Cur.options] =
                              SetAttr(@, "device", PyStr(device))]
                /\ IF ~exists(device)
                   THEN /\ output' = Append(output,
                               [level |-> "critical", text |-> msg])
                        /\ Exit(IOError(msg))
                   ELSE /\ pc' = At("handle_arguments", pc.node)
                        /\ UNCHANGED <<status, output>>
    /\ UNCHANGED <<nodes, config, queries, drives, fs, program, run>>

\* line 93: the subclass's handle_arguments()
HandleArguments ==
    /\ pc.step = "handle_arguments"
    /\ nodes' = [nodes EXCEPT ![pc.node].handled = TRUE]
    /\ pc' = At("dispatch", pc.node)
    /\ UNCHANGED <<status, heap, config, queries, drives, fs, program,
                   output, run>>

\* self.options.remainder as a list; None counts as empty
Remainder(ns) ==
    IF ns.remainder = <<>> \/ ns.remainder[1] = <<>> THEN <<>>
    ELSE ns.remainder[1][1]

\* faulty variant: help ends with the failure status
help_exit_failure == SystemExit("1")

\* lines 96-98: sys.exit(0) after print_help()
help_exit == SystemExit("0")

\* lines 99-102: sys.exit(1) for a first token that is no subcommand
incorrect_subcommand(cls, remainder) ==
    Text(remainder[1]) \notin DOMAIN subcommands[cls]

\* faulty variant: the unknown subcommand ends with the success status
incorrect_subcommand_exit_success == SystemExit("0")

incorrect_subcommand_exit == SystemExit("1")

\* faulty variant: the child's program name is the subcommand's name alone
child_unprefixed(node, remainder) ==
    NewNode(subcommands[node.cls][Text(remainder[1])],
            Tail(remainder),
            Text(remainder[1]),
            node.options, heap)

\* lines 103-107: the child, constructed from the class registered under
\* the first token, up to its add_arguments()
child(node, remainder) ==
    NewNode(subcommands[node.cls][Text(remainder[1])],
            Tail(remainder),
            node.prog_name \o " " \o Text(remainder[1]),
            node.options, heap)

\* lines 95-107: help, the unknown subcommand, or the child's constructor
\* (which starts at its own add_arguments()); a node without subcommands
\* is constructed
Dispatch ==
    /\ pc.step = "dispatch"
    /\ LET remainder == Remainder(heap[Cur.options]) IN
       IF ~hasattr_subcommands(Cur.cls)
       THEN /\ pc' = At("return", pc.node)
            /\ UNCHANGED <<nodes, status, output>>
       ELSE IF remainder = <<>>
       THEN /\ output' = Append(output,
                               [level |-> "help", text |-> Cur.prog_name])
            /\ Exit(help_exit)
            /\ UNCHANGED nodes
       ELSE IF incorrect_subcommand(Cur.cls, remainder)
       THEN /\ output' = Append(output,
                   [level |-> "critical",
                    text |-> "incorrect subcommand: "
                                \o Text(remainder[1])])
            /\ Exit(incorrect_subcommand_exit)
            /\ UNCHANGED nodes
       ELSE /\ nodes' = Append(nodes, child(Cur, remainder))
            /\ pc' = At("add_arguments", pc.node + 1)
            /\ UNCHANGED <<status, output>>
    /\ UNCHANGED <<heap, config, queries, drives, fs, program, run>>

\* line 103: the child's constructor has returned and the child is stored
\* as self.cmd; the root's constructor returns to its caller
Return ==
    /\ pc.step = "return"
    /\ IF pc.node > 1
       THEN /\ nodes' = [nodes EXCEPT ![pc.node - 1].cmd = pc.node]
            /\ pc' = At("return", pc.node - 1)
       ELSE /\ pc' = At("do", 1)
            /\ UNCHANGED nodes
    /\ UNCHANGED <<status, heap, config, queries, drives, fs, program,
                   output, run>>

----------------------------------------------------------------------------
(* do() and the task runner *)

\* faulty variant: a new error of the same kind is wrapped
TaskException_fresh(exception, task) ==
    [exception |-> [exception EXCEPT !.id = 3 - @], task |-> task]

TaskException(exception, task) == [exception |-> exception, task |-> task]

\* lines 127-128: do() of a node with an active child delegates to it
Do ==
    /\ pc.step = "do"
    /\ Cur.cmd # 0
    /\ pc' = At("do", Cur.cmd)
    /\ UNCHANGED <<nodes, status, heap, config, queries, drives, fs,
                   program, output, run>>

\* the leaf's do(): a runner is made and run(task, verbose) is called, as
\* in PathTestCase._testSuffix
LeafDo ==
    /\ pc.step = "do"
    /\ Cur.cmd = 0
    /\ \E task \in Tasks, v \in BOOLEAN :
         run' = [NoRun EXCEPT !.task = task, !.verbose = v,
                              !.state = "running"]
    /\ pc' = At("run", pc.node)
    /\ UNCHANGED <<nodes, status, heap, config, queries, drives, fs,
                   program, output>>

\* the task's operation runs to its terminal state; the task captures
\* the error it raises; verbose only adds progress output
TaskOperation ==
    /\ pc.step = "run"
    /\ run.state = "running"
    /\ \E e \in Opt(Errors) :
         run' = [run EXCEPT !.exception = e, !.state = "stopped"]
    /\ output' = IF run.verbose
                 THEN Append(output, [level |-> "progress",
                                      text |-> run.task])
                 ELSE output
    /\ UNCHANGED <<nodes, pc, status, heap, config, queries, drives, fs,
                   program>>

\* TaskRunner.run ends: a captured error is raised wrapped in a
\* TaskException, otherwise run returns
RunEnd ==
    /\ pc.step = "run"
    /\ run.state = "stopped"
    /\ IF run.exception # <<>>
       THEN /\ run' = [run EXCEPT !.state = "raised",
                         !.raised = <<TaskException(run.exception[1],
                                                    run.task)>>]
            /\ Exit([exc |-> "TaskException",
                     arg |-> run.exception[1].kind])
       ELSE /\ run' = [run EXCEPT !.state = "returned"]
            /\ status' = [exc |-> "returned", arg |-> ""]
            /\ pc' = At("done", pc.node)
    /\ UNCHANGED <<nodes, heap, config, queries, drives, fs, program,
                   output>>

----------------------------------------------------------------------------

Next ==
    \/ AddArgumentAndConfig
    \/ AddArgumentsReturn
    \/ AddRemainder
    \/ AddDeviceOption
    \/ ParseArgs
    \/ ResolveDevice
    \/ HandleArguments
    \/ Dispatch
    \/ Return
    \/ Do
    \/ LeafDo
    \/ TaskOperation
    \/ RunEnd

Spec == Init /\ [][Next]_vars

SpecOptions == InitOptions /\ [][Next]_vars

----------------------------------------------------------------------------
(* What the claims speak of *)

\* the tokens a node parses itself: its argv up to the first word
RECURSIVE OwnTokens(_)
OwnTokens(argv) ==
    IF argv = <<>> \/ argv[1].opt = "" THEN <<>>
    ELSE <<argv[1]>> \o OwnTokens(Tail(argv))

\* the strings given on a node's command line for option string opt
Given(argv, opt) ==
    LET own == OwnTokens(argv)
    IN  {own[j].val : j \in {l \in 1..Len(own) : own[l].opt = opt}}

\* the three-way precedence for one registration of a class: the flag's
\* value as the declared type reads it, else the config file's entry in
\* the option's section, else the code default
Precedence(cls, argv, kwargs) ==
    LET key == kwargs.dest[1]
        given == Given(argv, "--" \o key)
        entry == <<Section(cls, kwargs), key>>
    IN  IF given # {} THEN {get_value(kwargs.type, f) : f \in given}
        ELSE IF entry \in DOMAIN config THEN {config[entry]}
        ELSE IF kwargs.default # <<>> THEN {kwargs.default[1]}
        ELSE {PyNone}

\* the registrations of a class that name a dest
Registered(cls) ==
    {add_arguments(cls)[j] : j \in {l \in 1..Len(add_arguments(cls)) :
                                      add_arguments(cls)[l].dest # <<>>}}

\* the node at pc has just parsed its argv
JustParsed == pc.step = "resolve_device"

\* the namespace a node was handed, as it was at entry
AtEntry(n) == IF n.entry = <<>> THEN EmptyNamespace ELSE n.entry[1]

\* the namespace object a node was handed still holds what it held at entry
NamespaceUntouched(n) ==
    IF n.opts = 0 THEN heap = <<>> ELSE heap[n.opts] = n.entry[1]

----------------------------------------------------------------------------
(* C1: after a node has parsed its argv, every option it registered      *)
(* through add_argument_and_config has the flag's value if the flag was  *)
(* given, else the config file's value if there is an entry, else the   *)
(* code default.                                                         *)
C1_Precedence ==
    JustParsed =>
        \A kwargs \in Registered(Cur.cls) :
            heap[Cur.options].attrs[kwargs.dest[1]]
                \in Precedence(Cur.cls, Cur.argv, kwargs)

(* C7: when a child registers an option whose dest a parent already set  *)
(* in the shared namespace, the value after the child has parsed is the  *)
(* one of the child's own three-way precedence.                          *)
C7_LastWriterWins ==
    (JustParsed /\ pc.node > 1) =>
        \A kwargs \in Registered(Cur.cls) :
            HasAttr(AtEntry(Cur), kwargs.dest[1]) =>
                heap[Cur.options].attrs[kwargs.dest[1]]
                    \in Precedence(Cur.cls, Cur.argv, kwargs)

\* the type suffix the option's type calls for
IntendedSuffix(type) ==
    IF type = <<>> THEN ""
    ELSE CASE type[1] = "int" -> "int"
           [] type[1] = "float" -> "float"
           [] type[1] = "bool" -> "boolean"
           [] OTHER -> ""

(* C10: every lookup made for a registered option passes the config      *)
(* store the suffix "int" for an int option, "float" for a float option, *)
(* "boolean" for a bool option and "" for any other or no type.          *)
C10_Typesuffix ==
    \A j \in 1..Len(queries) :
        queries[j].typesuffix = IntendedSuffix(queries[j].type)

----------------------------------------------------------------------------

\* the parser of a node as init_parser leaves it
InitialParser(cls) == IF no_add_help[cls] THEN <<>> ELSE <<HelpAction>>

(* C3: a registration without 'dest' fails at once with SyntaxError: it  *)
(* is never passed, the parser has no action for it, the config store    *)
(* was not asked about it, the node has parsed nothing and the shared    *)
(* namespace is as the node found it.                                    *)
C3_MissingDest ==
    \A i \in 1..Len(nodes) :
        LET n == nodes[i]
            regs == add_arguments(n.cls)
        IN  /\ \A j \in 1..n.regs : regs[j].dest # <<>>
            /\ ( /\ i = pc.node
                 /\ n.regs < Len(regs)
                 /\ regs[n.regs + 1].dest = <<>>
                 /\ pc.step # "add_arguments" )
               => /\ pc.step = "exited"
                  /\ status = SyntaxError("parser requires a 'dest' argument")
                  /\ Len(n.parser) = Len(InitialParser(n.cls)) + n.regs
                  /\ Cardinality({j \in 1..Len(queries) :
                                    queries[j].node = i}) = n.regs
                  /\ n.options = 0
                  /\ NamespaceUntouched(n)
                  /\ Len(nodes) = i

\* a child fails on a registration without 'dest' after its parent has
\* filled the namespace
C3_Witness ==
    /\ status.exc = "SyntaxError"
    /\ pc.node = 2
    /\ "k" \in DOMAIN heap[nodes[2].opts].attrs

(* C2: when the task's operation raised E, run ends by raising a         *)
(* TaskException whose .exception is E itself, whatever verbose is; when *)
(* it raised nothing, run returns and raises nothing.                    *)
C2_TaskException ==
    [][(pc.step = "run" /\ run.state = "stopped") =>
         IF run.exception # <<>>
         THEN /\ run'.state = "raised"
              /\ run'.raised = <<[exception |-> run.exception[1],
                                  task |-> run.task]>>
              /\ status'.exc = "TaskException"
              /\ pc'.step = "exited"
         ELSE /\ run'.state = "returned"
              /\ run'.raised = <<>>
              /\ status'.exc = "returned"]_vars

C2_Witness ==
    /\ run.state = "raised"
    /\ run.verbose
    /\ run.exception = <<[kind |-> "gst.QueryError", id |-> 2]>>
    /\ run.raised # <<>>

(* C4: a node with subcommands whose remainder is empty after parsing    *)
(* prints its help and exits with status 0; no child is constructed and  *)
(* the node has no active child.                                         *)
C4_HelpOnEmpty ==
    [][( /\ pc.step = "dispatch"
         /\ hasattr_subcommands(Cur.cls)
         /\ Remainder(heap[Cur.options]) = <<>> )
       => /\ status' = SystemExit("0")
          /\ output' = Append(output, [level |-> "help",
                                       text |-> Cur.prog_name])
          /\ pc'.step = "exited"
          /\ nodes' = nodes
          /\ Len(nodes) = pc.node
          /\ Cur.cmd = 0]_vars

\* the CD node, reached through "cd", has shown its help at the dispatch
C4_Witness ==
    /\ pc = At("exited", 2)
    /\ status = SystemExit("0")
    /\ nodes[2].handled
    /\ Remainder(heap[nodes[2].options]) = <<>>
    /\ nodes[2].cmd = 0 /\ Len(nodes) = 2

(* C5: a node with subcommands whose first remaining token is not a      *)
(* registered subcommand exits with a failure status other than the      *)
(* help's 0, and no child is constructed, also when a later token names  *)
(* a subcommand.                                                         *)
C5_UnknownSubcommand ==
    [][( /\ pc.step = "dispatch"
         /\ hasattr_subcommands(Cur.cls)
         /\ Remainder(heap[Cur.options]) # <<>>
         /\ Text(Remainder(heap[Cur.options])[1])
               \notin DOMAIN subcommands[Cur.cls] )
       => /\ status'.exc = "SystemExit"
          /\ status'.arg # "0"
          /\ pc'.step = "exited"
          /\ nodes' = nodes
          /\ Len(nodes) = pc.node
          /\ Cur.cmd = 0]_vars

\* "bogus cd": the second token names a subcommand, the first does not
C5_Witness ==
    /\ pc = At("exited", 1)
    /\ status = SystemExit("1")
    /\ nodes[1].handled
    /\ LET remainder == Remainder(heap[nodes[1].options])
       IN  /\ Len(remainder) > 1
           /\ Text(remainder[1]) \notin DOMAIN subcommands["Whipper"]
           /\ Text(remainder[2]) \in DOMAIN subcommands["Whipper"]
    /\ Len(nodes) = 1

ChosenName(i) ==
    Text(nodes[i].argv[Len(nodes[i].argv) - Len(nodes[i + 1].argv)])

RECURSIVE PathName(_)
PathName(i) ==
    IF i = 1 THEN "whipper" ELSE PathName(i - 1) \o " " \o ChosenName(i - 1)

(* C8: a node with subcommands whose first remaining token N is          *)
(* registered constructs exactly one child, of the class registered      *)
(* under N, with the tokens after N, the program name P + " " + N and    *)
(* the namespace object the parent parsed into; the child becomes the    *)
(* active child; at depth k the program name is the root's name and the  *)
(* k chosen names joined by single spaces.                               *)
C8_Child ==
    /\ [][( /\ pc.step = "dispatch"
            /\ hasattr_subcommands(Cur.cls)
            /\ Remainder(heap[Cur.options]) # <<>>
            /\ Text(Remainder(heap[Cur.options])[1])
                  \in DOMAIN subcommands[Cur.cls] )
          => LET remainder == Remainder(heap[Cur.options])
                 N == Text(remainder[1])
                 c == nodes'[Len(nodes')]
             IN  /\ Len(nodes') = Len(nodes) + 1
                 /\ SubSeq(nodes', 1, Len(nodes)) = nodes
                 /\ pc.node = Len(nodes)
                 /\ c.cls = subcommands[Cur.cls][N]
                 /\ c.argv = Tail(remainder)
                 /\ c.prog_name = Cur.prog_name \o " " \o N
                 /\ c.opts = Cur.options
                 /\ c.opts # 0
                 /\ heap' = heap]_vars
    /\ [](\A i \in 1..Len(nodes) :
            /\ nodes[i].prog_name = PathName(i)
            /\ nodes[i].cmd \in {0, i + 1}
            /\ i > 1 => /\ nodes[i].opts = nodes[1].options
                        /\ nodes[i].argv =
                             SubSeq(nodes[i - 1].argv,
                                    Len(nodes[i - 1].argv)
                                       - Len(nodes[i].argv) + 1,
                                    Len(nodes[i - 1].argv))
            /\ (pc.step \in {"do", "run", "done"} /\ i < Len(nodes))
                  => nodes[i].cmd = i + 1)

\* the whole chain is constructed over a namespace the root's parser made
C8_Witness ==
    /\ pc = At("do", 1)
    /\ Len(nodes) = 3
    /\ nodes[3].prog_name = "whipper cd rip"
    /\ nodes[1].opts = 0
    /\ nodes[3].opts = 1
    /\ nodes[1].cmd = 2 /\ nodes[2].cmd = 3

====
